---- MODULE Spec2Model ----
(***************************************************************************)
(* mini-overlay: a point-to-point L3 overlay (TUN <-> UDP) with an         *)
(* optional secretbox envelope.  Two builds of the engine live in the      *)
(* repository: mini_overlay.go (outbound and inbound loops) and the older  *)
(* main.go kept as part_001 (the same two loops plus a keepalive loop).    *)
(*                                                                         *)
(* Bytes are naturals in 0..255, byte slices are sequences.                *)
(***************************************************************************)
EXTENDS Integers, Sequences, FiniteSets, TLC

\* ------------------------------------------------------------------------
\* Sizes fixed by the code
\* ------------------------------------------------------------------------

\* var nonce [24]byte
NonceSize == 24

\* key [32]byte
KeySize == 32

\* secretbox.Overhead: the tag secretbox.Seal puts before the ciphertext
Overhead == 16

\* the nil *net.UDPAddr
Nil == "nil"

\* ------------------------------------------------------------------------
\* Byte-slice helpers
\* ------------------------------------------------------------------------

\* s[1] + ... + s[n]
SumUpTo(s, n) ==
    LET sum[k \in 0..n] == IF k = 0 THEN 0 ELSE s[k] + sum[k - 1]
    IN  sum[n]

SumSeq(s) == SumUpTo(s, Len(s))

\* position-weighted sum: changing one byte of s changes the sum
WSumUpTo(s, n) ==
    LET sum[k \in 0..n] == IF k = 0 THEN 0 ELSE k * s[k] + sum[k - 1]
    IN  sum[n]

WSum(s) == WSumUpTo(s, Len(s))

\* Go's s[:0]
Trunc0(s) == SubSeq(s, 1, 0)

\* Go's s[n:]
From(s, n) == SubSeq(s, n + 1, Len(s))

\* Go's s[:n]
Upto(s, n) == SubSeq(s, 1, n)

\* ------------------------------------------------------------------------
\* secretbox (XSalsa20 + Poly1305), as the code uses it:
\*   Seal(out, msg, nonce, key) = out || tag[16] || ciphertext[len(msg)]
\*   Open(out, box, nonce, key) = (out || msg, true) if the tag verifies
\* The keystream and the tag are deterministic functions of key and nonce;
\* the tag depends on every byte of the ciphertext and on its length.
\* CHOOSE r \in { e(x) : x \in {v} } : TRUE is e(v), with v evaluated once.
\* ------------------------------------------------------------------------

KeyStream(key, nonce) == SumSeq(key) + 3 * SumSeq(nonce)

Tag(key, nonce, c) ==
    CHOOSE tag \in
        { [j \in 1..Overhead |-> (t + 11 * j) % 256] :
            t \in {SumSeq(key) + 5 * WSum(nonce) + WSum(c) + 17 * Len(c)} } :
        TRUE

Encrypt(key, nonce, msg) ==
    CHOOSE c \in
        { [j \in 1..Len(msg) |-> (msg[j] + ks + 7 * j) % 256] :
            ks \in {KeyStream(key, nonce)} } :
        TRUE

Decrypt(key, nonce, c) ==
    CHOOSE msg \in
        { [j \in 1..Len(c) |-> (c[j] + 256 - ((ks + 7 * j) % 256)) % 256] :
            ks \in {KeyStream(key, nonce)} } :
        TRUE

SecretboxSeal(out, msg, nonce, key) ==
    CHOOSE sbox \in
        { out \o Tag(key, nonce, c) \o c : c \in {Encrypt(key, nonce, msg)} } :
        TRUE

SecretboxOpen(out, sbox, nonce, key) ==
    IF Len(sbox) < Overhead
    THEN [out |-> <<>>, ok |-> FALSE]
    ELSE LET tag == Upto(sbox, Overhead)
             c   == From(sbox, Overhead)
         IN  IF tag = Tag(key, nonce, c)
             THEN [out |-> out \o Decrypt(key, nonce, c), ok |-> TRUE]
             ELSE [out |-> <<>>, ok |-> FALSE]

\* ------------------------------------------------------------------------
\* type box struct { key [32]byte; enable bool }
\* ------------------------------------------------------------------------

KeyOf(seed) == [i \in 1..KeySize |-> seed]

ZeroKey == KeyOf(0)

\* the result of io.ReadFull(cryptoRand.Reader, nonce[:]): 24 bytes, or an
\* error (no bytes)
RandErr == <<>>

NonceOf(seed) == [i \in 1..NonceSize |-> seed]

\* seal with the nonce left out of the datagram
sealNoNonce(b, dst, msg, rnd) ==
    IF ~b.enable
    THEN [out |-> dst \o msg, err |-> FALSE]
    ELSE IF rnd = RandErr
         THEN [out |-> <<>>, err |-> TRUE]
         ELSE [out |-> SecretboxSeal(Trunc0(dst), msg, rnd, b.key),
               err |-> FALSE]

\* func (b *box) seal(dst, msg []byte) ([]byte, error)
seal(b, dst, msg, rnd) ==
    IF ~b.enable
    THEN [out |-> dst \o msg, err |-> FALSE]
    ELSE IF rnd = RandErr
         THEN [out |-> <<>>, err |-> TRUE]
         ELSE [out |-> SecretboxSeal(Trunc0(dst) \o rnd, msg, rnd, b.key),
               err |-> FALSE]

\* open that hands the whole datagram, nonce included, to secretbox.Open
openKeepNonce(b, dst, pkt) ==
    IF ~b.enable
    THEN [out |-> dst \o pkt, ok |-> TRUE]
    ELSE IF Len(pkt) < NonceSize
         THEN [out |-> <<>>, ok |-> FALSE]
         ELSE SecretboxOpen(Trunc0(dst), pkt, Upto(pkt, NonceSize), b.key)

\* open that reports success for a datagram shorter than the nonce
openShortOk(b, dst, pkt) ==
    IF ~b.enable
    THEN [out |-> dst \o pkt, ok |-> TRUE]
    ELSE IF Len(pkt) < NonceSize
         THEN [out |-> <<>>, ok |-> TRUE]
         ELSE SecretboxOpen(Trunc0(dst), From(pkt, NonceSize),
                            Upto(pkt, NonceSize), b.key)

\* func (b *box) open(dst, pkt []byte) ([]byte, bool)
open(b, dst, pkt) ==
    IF ~b.enable
    THEN [out |-> dst \o pkt, ok |-> TRUE]
    ELSE IF Len(pkt) < NonceSize
         THEN [out |-> <<>>, ok |-> FALSE]
         ELSE SecretboxOpen(Trunc0(dst), From(pkt, NonceSize),
                            Upto(pkt, NonceSize), b.key)

\* ------------------------------------------------------------------------
\* Bounds of the model
\* ------------------------------------------------------------------------

\* events from outside in one run: packets the kernel hands to a TUN device,
\* datagrams sent by hosts that run no engine, 15-second periods that elapse,
\* system calls that fail, termination signals
MaxEvents == 3

\* ------------------------------------------------------------------------
\* Inputs
\* ------------------------------------------------------------------------

\* the two engines of a loopback pair; "X" is a host that runs no engine
Instances == {"A", "B"}

Other(i) == IF i = "A" THEN "B" ELSE "A"

Addrs == Instances \cup {"X"}

\* the two builds under src/
Builds == {"mini_overlay", "part_001"}

\* 45 00 00 1c 00 01 00 00 40 11 ... : 20-byte IPv4 header + 8-byte UDP header
Pkt28 == <<69, 0, 0, 28, 0, 1, 0, 0, 64, 17, 0, 0, 10, 0, 0, 1, 10, 0, 0, 2,
           0, 7, 0, 7, 0, 8, 0, 0>>

\* the same packet with IP id 2
Pkt28b == [Pkt28 EXCEPT ![6] = 2]

\* the packets the kernel hands to the TUN device of a single engine
Packets == {Pkt28}

\* the packets the kernel hands to the TUN devices of a loopback pair
PairPackets == {Pkt28, Pkt28b}

\* values of byte(rand.Intn(256)) the model draws
KeepaliveBytes == {90}

\* the nonce the system random source hands to the engines
Rands == {NonceOf(1)}

\* the nonces the system random source hands to the envelope on its own
EnvRands == {NonceOf(1), NonceOf(2)}

DisabledBox == [enable |-> FALSE, key |-> ZeroKey]

EnabledBox(seed) == [enable |-> TRUE, key |-> KeyOf(seed)]

\* the envelope configurations an engine starts with (-psk empty or 32 bytes)
Boxes == {DisabledBox, EnabledBox(1)}

\* s with byte i changed
Tamper(s, i) == [s EXCEPT ![i] = (s[i] + 1) % 256]

\* what a host that runs no engine may put on the wire towards an engine
\* whose key is KeyOf(1): a sealed packet, the sealed packet with one
\* ciphertext bit flipped, a 10-byte datagram, a packet sealed under another
\* key
GoodDgram == seal(EnabledBox(1), <<>>, Pkt28, NonceOf(1)).out

Wire ==
    { GoodDgram,
      Tamper(GoodDgram, NonceSize + Overhead + 1),
      Upto(GoodDgram, 10),
      seal(EnabledBox(2), <<>>, Pkt28, NonceOf(1)).out }

\* ------------------------------------------------------------------------
\* State
\* ------------------------------------------------------------------------

VARIABLES
    build,       \* which main() runs
    engines,     \* the instances on which an engine runs
    b,           \* b[i]: the box of engine i (read-only after startup)
    raddr,       \* raddr[i]: the peer-address cell, Nil or an address
    learned,     \* learned[i]: the inbound loop has stored into raddr[i]
    outPc,       \* outbound loop: "read" (in ifce.Read), "send", "exit"
    outSealed,   \* outbound loop: the sealed datagram it holds at "send"
    inPc,        \* inbound loop: "recv" (in conn.ReadFromUDP), "exit"
    rxq,         \* rxq[i]: datagrams queued on the UDP socket of i
    tunReads,    \* history: packets ifce.Read returned
    tunWrites,   \* history: packets ifce.Write accepted
    udpSent,     \* history: calls of conn.WriteToUDP
    rxLog,       \* history: datagrams conn.ReadFromUDP returned, with what
                 \* the iteration found in raddr and did
    dropped,     \* history: indices of TUN packets dropped at raddr == nil
    unsetAtRead, \* history: indices of TUN packets read while raddr was nil
    ticks,       \* history: 15-second periods elapsed
    kaDue,       \* history: periods that ended with the peer set
    injected,    \* datagrams sent by hosts that run no engine
    faults,      \* failed system calls so far
    mainPc,      \* main(): "wait" (in <-stop), "closing" (returning: the
                 \* deferred conn.Close() has run), "exited"
    sig,         \* history: termination signals delivered to the process
    envPc, envBox, envMsg, envSealed, envDgram, envMangled, envOpened

engineVars == <<build, engines, b, raddr, learned, outPc, outSealed, inPc, rxq,
                tunReads, tunWrites, udpSent, rxLog, dropped, unsetAtRead,
                ticks, kaDue, injected, faults, mainPc, sig>>

envelopeVars == <<envPc, envBox, envMsg, envSealed, envDgram, envMangled,
                  envOpened>>

vars == <<engineVars, envelopeVars>>

\* ------------------------------------------------------------------------
\* Startup: the state main() leaves when it has started its goroutines
\* ------------------------------------------------------------------------

EngineStart(es, peers) ==
    /\ build \in Builds
    /\ engines = es
    /\ \E bx \in Boxes : b = [i \in Instances |-> bx]
    /\ raddr \in peers
    /\ learned = [i \in Instances |-> FALSE]
    /\ outPc = [i \in Instances |-> "read"]
    /\ outSealed = [i \in Instances |-> <<>>]
    /\ inPc = [i \in Instances |-> "recv"]
    /\ rxq = [i \in Instances |-> <<>>]
    /\ tunReads = [i \in Instances |-> <<>>]
    /\ tunWrites = [i \in Instances |-> <<>>]
    /\ udpSent = [i \in Instances |-> <<>>]
    /\ rxLog = [i \in Instances |-> <<>>]
    /\ dropped = [i \in Instances |-> {}]
    /\ unsetAtRead = [i \in Instances |-> {}]
    /\ ticks = [i \in Instances |-> 0]
    /\ kaDue = [i \in Instances |-> 0]
    /\ injected = 0
    /\ faults = 0
    /\ mainPc = [i \in Instances |-> "wait"]
    /\ sig = [i \in Instances |-> 0]

EnvelopeIdle ==
    /\ envPc = "off"
    /\ envBox = DisabledBox
    /\ envMsg = <<>>
    /\ envSealed = [out |-> <<>>, err |-> FALSE]
    /\ envDgram = <<>>
    /\ envMangled = FALSE
    /\ envOpened = [out |-> <<>>, ok |-> FALSE]

\* one engine, A, started with -peer empty or -peer B; B and X run no engine
Init ==
    /\ EngineStart({"A"}, {[i \in Instances |-> IF i = "A" THEN p ELSE Nil] :
                              p \in {Nil, "B"}})
    /\ EnvelopeIdle

\* ------------------------------------------------------------------------
\* The process: its goroutines run until main() returns
\* ------------------------------------------------------------------------

\* the goroutines never stop
AliveAlways(i) == TRUE

\* the goroutines of engine i stall while its outbound loop holds a packet
AliveUnlessSending(i) == mainPc[i] # "exited" /\ outPc[i] # "send"

\* the process of engine i has not exited
Alive(i) == mainPc[i] # "exited"

\* conn is open until the deferred conn.Close() of main() runs
ConnOpen(i) == mainPc[i] = "wait"

\* ------------------------------------------------------------------------
\* The peer-address cell
\* ------------------------------------------------------------------------

\* the peer follows the sender of every datagram (roaming)
LearnPeerRoam(cur, from) == from

\* if raddr == nil { raddr = from }
LearnPeer(cur, from) == IF cur = Nil THEN from ELSE cur

\* what a read of raddr by the outbound or the keepalive goroutine may return:
\* the store of the inbound goroutine is not synchronised with these reads,
\* so a read may still return the nil of before the store
Views(i) == IF learned[i] THEN {raddr[i], Nil} ELSE {raddr[i]}

\* ------------------------------------------------------------------------
\* conn.WriteToUDP(data, to) by engine i; src and idx say what was sealed
\* ------------------------------------------------------------------------

Events ==
    Len(tunReads["A"]) + Len(tunReads["B"]) + ticks["A"] + ticks["B"]
        + injected + faults + sig["A"] + sig["B"]

WriteToUDP(i, data, to, src, idx, sendOk) ==
    LET ok == sendOk /\ to # Nil /\ ConnOpen(i)
    IN  /\ udpSent' = [udpSent EXCEPT ![i] =
               Append(@, [to |-> to, data |-> data, src |-> src, idx |-> idx,
                          ok |-> ok])]
        /\ rxq' = IF ok /\ to \in engines /\ ConnOpen(to)
                  THEN [rxq EXCEPT ![to] =
                           Append(@, [from |-> i, data |-> data])]
                  ELSE rxq

\* ------------------------------------------------------------------------
\* Outbound loop (TUN -> UDP)
\* ------------------------------------------------------------------------

\* n, err := ifce.Read(buf) returns a packet; sealed, err := b.seal(out, pkt)
OutRead(i, pkt, rnd) ==
    /\ i \in engines
    /\ Alive(i)
    /\ outPc[i] = "read"
    /\ Events < MaxEvents
    /\ LET s == seal(b[i], Trunc0(outSealed[i]), pkt, rnd)
       IN  /\ s.err => Events < MaxEvents
           /\ tunReads' = [tunReads EXCEPT ![i] = Append(@, pkt)]
           /\ unsetAtRead' = [unsetAtRead EXCEPT ![i] =
                  IF raddr[i] = Nil THEN @ \cup {Len(tunReads[i]) + 1} ELSE @]
           /\ IF s.err
              THEN /\ faults' = faults + 1
                   /\ UNCHANGED <<outPc, outSealed>>
              ELSE /\ outPc' = [outPc EXCEPT ![i] = "send"]
                   /\ outSealed' = [outSealed EXCEPT ![i] = s.out]
                   /\ UNCHANGED faults
    /\ UNCHANGED <<build, engines, b, raddr, learned, inPc, rxq, tunWrites,
                   udpSent, rxLog, dropped, ticks, kaDue, injected>>
    /\ UNCHANGED <<mainPc, sig>>
    /\ UNCHANGED envelopeVars

\* ifce.Read fails and the error ends the process
OutReadErrFatal(i) ==
    /\ i \in engines
    /\ Alive(i)
    /\ outPc[i] = "read"
    /\ Events < MaxEvents
    /\ faults' = faults + 1
    /\ outPc' = [outPc EXCEPT ![i] = "exit"]
    /\ mainPc' = [mainPc EXCEPT ![i] = "exited"]
    /\ UNCHANGED <<build, engines, b, raddr, learned, outSealed, inPc, rxq,
                   tunReads, tunWrites, udpSent, rxLog, dropped, unsetAtRead,
                   ticks, kaDue, injected, sig>>
    /\ UNCHANGED envelopeVars

\* ifce.Read fails: log "tun read:", return
OutReadErr(i) ==
    /\ i \in engines
    /\ Alive(i)
    /\ outPc[i] = "read"
    /\ Events < MaxEvents
    /\ faults' = faults + 1
    /\ outPc' = [outPc EXCEPT ![i] = "exit"]
    /\ UNCHANGED <<build, engines, b, raddr, learned, outSealed, inPc, rxq,
                   tunReads, tunWrites, udpSent, rxLog, dropped, unsetAtRead,
                   ticks, kaDue, injected>>
    /\ UNCHANGED <<mainPc, sig>>
    /\ UNCHANGED envelopeVars

\* if raddr == nil { continue }
PeerUnset(v) == v = Nil

\* the loop keeps the sealed packet and checks raddr again
AfterDropRetry == "send"

\* where the outbound loop goes after a drop: back to ifce.Read
AfterDrop == "read"

\* the loop sends the packet again after a failed send
AfterSendRetry(sendOk) == IF sendOk THEN "read" ELSE "send"

\* where the outbound loop goes after conn.WriteToUDP, failed or not: the
\* error is logged and the loop goes back to ifce.Read
AfterSend(sendOk) == "read"

\* the outbound loop forgets the peer when conn.WriteToUDP fails
OutSendForget(i, v1, v2, sendOk) ==
    /\ i \in engines
    /\ Alive(i)
    /\ outPc[i] = "send"
    /\ v1 \in Views(i)
    /\ v2 \in Views(i)
    /\ ~sendOk => (~PeerUnset(v1) /\ v2 # Nil /\ Events < MaxEvents)
    /\ IF PeerUnset(v1)
       THEN /\ dropped' = [dropped EXCEPT ![i] = @ \cup {Len(tunReads[i])}]
            /\ outPc' = [outPc EXCEPT ![i] = AfterDrop]
            /\ UNCHANGED <<udpSent, rxq, faults, raddr>>
       ELSE /\ WriteToUDP(i, outSealed[i], v2, "tun", Len(tunReads[i]), sendOk)
            /\ outPc' = [outPc EXCEPT ![i] = AfterSend(sendOk)]
            /\ faults' = IF sendOk THEN faults ELSE faults + 1
            /\ raddr' = IF sendOk THEN raddr ELSE [raddr EXCEPT ![i] = Nil]
            /\ UNCHANGED dropped
    /\ UNCHANGED <<build, engines, b, learned, outSealed, inPc, tunReads,
                   tunWrites, rxLog, unsetAtRead, ticks, kaDue, injected>>
    /\ UNCHANGED <<mainPc, sig>>
    /\ UNCHANGED envelopeVars

\* if raddr == nil { continue }; conn.WriteToUDP(sealed, raddr)
\* v1 and v2 are what the two reads of raddr return
OutSend(i, v1, v2, sendOk) ==
    /\ i \in engines
    /\ Alive(i)
    /\ outPc[i] = "send"
    /\ v1 \in Views(i)
    /\ v2 \in Views(i)
    /\ ~sendOk => (~PeerUnset(v1) /\ v2 # Nil /\ Events < MaxEvents)
    /\ IF PeerUnset(v1)
       THEN /\ dropped' = [dropped EXCEPT ![i] = @ \cup {Len(tunReads[i])}]
            /\ outPc' = [outPc EXCEPT ![i] = AfterDrop]
            /\ UNCHANGED <<udpSent, rxq, faults>>
       ELSE /\ WriteToUDP(i, outSealed[i], v2, "tun", Len(tunReads[i]), sendOk)
            /\ outPc' = [outPc EXCEPT ![i] = AfterSend(sendOk)]
            /\ faults' = IF sendOk THEN faults ELSE faults + 1
            /\ UNCHANGED dropped
    /\ UNCHANGED <<build, engines, b, raddr, learned, outSealed, inPc,
                   tunReads, tunWrites, rxLog, unsetAtRead, ticks, kaDue,
                   injected>>
    /\ UNCHANGED <<mainPc, sig>>
    /\ UNCHANGED envelopeVars

\* ------------------------------------------------------------------------
\* Inbound loop (UDP -> TUN)
\* ------------------------------------------------------------------------

\* the result of open is written to TUN whatever ok says
AcceptedAlways(res) == TRUE

\* plaintexts of one byte, the keepalives, are not written to TUN
AcceptedData(res) == res.ok /\ Len(res.out) > 1

\* if !ok { continue }
Accepted(res) == res.ok

\* one iteration: ReadFromUDP returns the head of the socket queue
InboundStep(i, writeOk) ==
    /\ i \in engines
    /\ Alive(i)
    /\ ConnOpen(i)
    /\ inPc[i] = "recv"
    /\ rxq[i] # <<>>
    /\ LET m   == Head(rxq[i])
           res == open(b[i], <<>>, m.data)
       IN  /\ ~writeOk => (Accepted(res) /\ Events < MaxEvents)
           /\ raddr' = [raddr EXCEPT ![i] = LearnPeer(@, m.from)]
           /\ learned' = [learned EXCEPT ![i] = @ \/ raddr[i] # raddr'[i]]
           /\ rxLog' = [rxLog EXCEPT ![i] =
                  Append(@, [from |-> m.from, data |-> m.data, ok |-> res.ok,
                             was |-> raddr[i],
                             learnt |-> raddr[i] # raddr'[i],
                             wrote |-> Accepted(res) /\ writeOk,
                             werr |-> Accepted(res) /\ ~writeOk])]
           /\ tunWrites' = IF Accepted(res) /\ writeOk
                           THEN [tunWrites EXCEPT ![i] = Append(@, res.out)]
                           ELSE tunWrites
           /\ faults' = IF writeOk THEN faults ELSE faults + 1
    /\ rxq' = [rxq EXCEPT ![i] = Tail(@)]
    /\ UNCHANGED <<build, engines, b, outPc, outSealed, inPc, tunReads,
                   udpSent, dropped, unsetAtRead, ticks, kaDue, injected>>
    /\ UNCHANGED <<mainPc, sig>>
    /\ UNCHANGED envelopeVars

\* conn.ReadFromUDP fails, of itself or because conn is closed: log
\* "udp read:", return
InRecvErr(i) ==
    /\ i \in engines
    /\ Alive(i)
    /\ inPc[i] = "recv"
    /\ ConnOpen(i) => Events < MaxEvents
    /\ faults' = IF ConnOpen(i) THEN faults + 1 ELSE faults
    /\ inPc' = [inPc EXCEPT ![i] = "exit"]
    /\ UNCHANGED <<build, engines, b, raddr, learned, outPc, outSealed, rxq,
                   tunReads, tunWrites, udpSent, rxLog, dropped, unsetAtRead,
                   ticks, kaDue, injected>>
    /\ UNCHANGED <<mainPc, sig>>
    /\ UNCHANGED envelopeVars

\* ------------------------------------------------------------------------
\* Keepalive loop (part_001 only: mini_overlay.go starts no such goroutine)
\* ------------------------------------------------------------------------

\* for range t.C { if raddr != nil { p := []byte{byte(rand.Intn(256))};
\*   msg, err := b.seal(nil, p)
\*   if err == nil { conn.WriteToUDP(msg, raddr) } } }
Keepalive(i, kb, rnd, v1, v2, sendOk) ==
    LET s == seal(b[i], <<>>, <<kb>>, rnd)
    IN  /\ s.err => (v1 # Nil /\ Events < MaxEvents)
        /\ ~sendOk => (v1 # Nil /\ v2 # Nil /\ ~s.err /\ Events < MaxEvents)
        /\ IF v1 # Nil /\ ~s.err
           THEN WriteToUDP(i, s.out, v2, "ka", ticks[i] + 1, sendOk)
           ELSE UNCHANGED <<udpSent, rxq>>
        /\ faults' = IF (v1 # Nil /\ s.err) \/ ~sendOk
                      THEN faults + 1 ELSE faults

\* the goroutines main() starts besides the outbound and the inbound loop
HasKeepalive(bld) == bld = "part_001"

\* a 15-second period ends on the host of engine i
Tick(i, kb, rnd, v1, v2, sendOk) ==
    /\ i \in engines
    /\ Alive(i)
    /\ Events < MaxEvents
    /\ v1 \in Views(i)
    /\ v2 \in Views(i)
    /\ ticks' = [ticks EXCEPT ![i] = @ + 1]
    /\ kaDue' = [kaDue EXCEPT ![i] = IF raddr[i] # Nil THEN @ + 1 ELSE @]
    /\ IF HasKeepalive(build)
       THEN Keepalive(i, kb, rnd, v1, v2, sendOk)
       ELSE \* no keepalive goroutine: nothing reads the inputs
            /\ kb \in KeepaliveBytes /\ rnd = RandErr /\ sendOk
            /\ UNCHANGED <<udpSent, rxq, faults>>
    /\ UNCHANGED <<build, engines, b, raddr, learned, outPc, outSealed, inPc,
                   tunReads, tunWrites, rxLog, dropped, unsetAtRead,
                   injected>>
    /\ UNCHANGED <<mainPc, sig>>
    /\ UNCHANGED envelopeVars

\* ------------------------------------------------------------------------
\* The network
\* ------------------------------------------------------------------------

\* a host that runs no engine sends datagram d to engine i; the datagram
\* reaches the socket when the inbound loop has taken the one before it (when
\* a queued datagram arrived is nothing the engine can observe)
EnvInject(i, from, d) ==
    /\ i \in engines
    /\ ConnOpen(i)
    /\ from \in Addrs \ engines
    /\ rxq[i] = <<>>
    /\ Events < MaxEvents
    /\ injected' = injected + 1
    /\ rxq' = [rxq EXCEPT ![i] = Append(@, [from |-> from, data |-> d])]
    /\ UNCHANGED <<build, engines, b, raddr, learned, outPc, outSealed, inPc,
                   tunReads, tunWrites, udpSent, rxLog, dropped, unsetAtRead,
                   ticks, kaDue, faults>>
    /\ UNCHANGED <<mainPc, sig>>
    /\ UNCHANGED envelopeVars

\* the network loses the k-th datagram on its way to engine i
NetLose(i, k) ==
    /\ i \in engines
    /\ k \in 1..Len(rxq[i])
    /\ rxq' = [rxq EXCEPT ![i] =
                  SubSeq(@, 1, k - 1) \o SubSeq(@, k + 1, Len(@))]
    /\ UNCHANGED <<build, engines, b, raddr, learned, outPc, outSealed, inPc,
                   tunReads, tunWrites, udpSent, rxLog, dropped, unsetAtRead,
                   ticks, kaDue, injected, faults>>
    /\ UNCHANGED <<mainPc, sig>>
    /\ UNCHANGED envelopeVars

\* ------------------------------------------------------------------------
\* Specification of one engine and its network
\* ------------------------------------------------------------------------

Next ==
    \/ \E i \in Instances, pkt \in Packets, rnd \in Rands \cup {RandErr} :
          OutRead(i, pkt, rnd)
    \/ \E i \in Instances : OutReadErr(i)
    \/ \E i \in Instances, v1, v2 \in Addrs \cup {Nil}, sendOk \in BOOLEAN :
          OutSend(i, v1, v2, sendOk)
    \/ \E i \in Instances, writeOk \in BOOLEAN : InboundStep(i, writeOk)
    \/ \E i \in Instances : InRecvErr(i)
    \/ \E i \in Instances, kb \in KeepaliveBytes, rnd \in Rands \cup {RandErr},
          v1, v2 \in Addrs \cup {Nil}, sendOk \in BOOLEAN :
          Tick(i, kb, rnd, v1, v2, sendOk)
    \/ \E i \in Instances, from \in Addrs, d \in Wire : EnvInject(i, from, d)

Spec == Init /\ [][Next]_vars

\* ------------------------------------------------------------------------
\* Specification of one engine, its network and the signals sent to its
\* process: engine A started with -peer B; host X sends it datagrams
\* ------------------------------------------------------------------------

InitLife ==
    /\ EngineStart({"A"}, {[i \in Instances |-> IF i = "A" THEN "B" ELSE Nil]})
    /\ EnvelopeIdle

\* what host X puts on the wire: a sealed packet, a sealed keepalive byte, a
\* 10-byte datagram and the datagram of no bytes
LifeWire ==
    { GoodDgram,
      seal(EnabledBox(1), <<>>, <<90>>, NonceOf(1)).out,
      Upto(GoodDgram, 10),
      <<>> }

\* SIGINT or SIGTERM is sent to the process: signal.Notify puts it into the
\* channel stop, which holds one signal
Signal(i) ==
    /\ i \in engines
    /\ mainPc[i] = "wait"
    /\ sig[i] = 0
    /\ Events < MaxEvents
    /\ sig' = [sig EXCEPT ![i] = @ + 1]
    /\ UNCHANGED <<build, engines, b, raddr, learned, outPc, outSealed, inPc,
                   rxq, tunReads, tunWrites, udpSent, rxLog, dropped,
                   unsetAtRead, ticks, kaDue, injected, faults, mainPc>>
    /\ UNCHANGED envelopeVars

\* <-stop returns; klog.Info("Bye."); main() returns and its deferred
\* conn.Close() runs: the datagrams queued on the socket are discarded
MainReturn(i) ==
    /\ i \in engines
    /\ mainPc[i] = "wait"
    /\ sig[i] > 0
    /\ mainPc' = [mainPc EXCEPT ![i] = "closing"]
    /\ rxq' = [rxq EXCEPT ![i] = <<>>]
    /\ UNCHANGED <<build, engines, b, raddr, learned, outPc, outSealed, inPc,
                   tunReads, tunWrites, udpSent, rxLog, dropped, unsetAtRead,
                   ticks, kaDue, injected, faults, sig>>
    /\ UNCHANGED envelopeVars

\* main() has returned: the runtime ends the process, its goroutines with it,
\* and the kernel closes the descriptors the process still holds (the TUN)
ProcExit(i) ==
    /\ i \in engines
    /\ mainPc[i] = "closing"
    /\ mainPc' = [mainPc EXCEPT ![i] = "exited"]
    /\ UNCHANGED <<build, engines, b, raddr, learned, outPc, outSealed, inPc,
                   rxq, tunReads, tunWrites, udpSent, rxLog, dropped,
                   unsetAtRead, ticks, kaDue, injected, faults, sig>>
    /\ UNCHANGED envelopeVars

NextLife ==
    \/ \E i \in Instances, pkt \in Packets, rnd \in Rands :
          OutRead(i, pkt, rnd)
    \/ \E i \in Instances : OutReadErr(i)
    \/ \E i \in Instances, v1, v2 \in Addrs \cup {Nil}, sendOk \in BOOLEAN :
          OutSend(i, v1, v2, sendOk)
    \/ \E i \in Instances, writeOk \in BOOLEAN : InboundStep(i, writeOk)
    \/ \E i \in Instances : InRecvErr(i)
    \/ \E i \in Instances, kb \in KeepaliveBytes, rnd \in Rands \cup {RandErr},
          v1, v2 \in Addrs \cup {Nil}, sendOk \in BOOLEAN :
          Tick(i, kb, rnd, v1, v2, sendOk)
    \/ \E i \in Instances, d \in LifeWire : EnvInject(i, "X", d)
    \/ \E i \in Instances : Signal(i)
    \/ \E i \in Instances : MainReturn(i)
    \/ \E i \in Instances : ProcExit(i)

\* what the goroutines of engine i do of themselves
OutboundRuns(i) ==
    \E v1, v2 \in Addrs \cup {Nil}, sendOk \in BOOLEAN :
        OutSend(i, v1, v2, sendOk)

InboundRuns(i) == \E writeOk \in BOOLEAN : InboundStep(i, writeOk)

\* ifce.Read returns a packet to the outbound loop of engine i
OutboundReads(i) == \E pkt \in Packets, rnd \in Rands : OutRead(i, pkt, rnd)

MainRuns(i) == MainReturn(i) \/ ProcExit(i)

\* the Go scheduler runs every goroutine that can run
SpecLife ==
    /\ InitLife
    /\ [][NextLife]_vars
    /\ \A i \in {"A"} :
          /\ WF_vars(OutboundRuns(i))
          /\ WF_vars(InboundRuns(i))
          /\ WF_vars(MainRuns(i))

\* ------------------------------------------------------------------------
\* Specification of a loopback pair: engines A and B of the same build and the
\* same envelope configuration, peered to each other over a network that may
\* lose datagrams but keeps their order
\* ------------------------------------------------------------------------

InitPair ==
    /\ EngineStart(Instances, {[i \in Instances |-> Other(i)]})
    /\ EnvelopeIdle

NextPair ==
    \/ \E i \in Instances, pkt \in PairPackets, rnd \in Rands \cup {RandErr} :
          OutRead(i, pkt, rnd)
    \/ \E i \in Instances : OutReadErr(i)
    \/ \E i \in Instances, v1, v2 \in Addrs \cup {Nil}, sendOk \in BOOLEAN :
          OutSend(i, v1, v2, sendOk)
    \/ \E i \in Instances, writeOk \in BOOLEAN : InboundStep(i, writeOk)
    \/ \E i \in Instances : InRecvErr(i)
    \/ \E i \in Instances, kb \in KeepaliveBytes, rnd \in Rands \cup {RandErr},
          v1, v2 \in Addrs \cup {Nil}, sendOk \in BOOLEAN :
          Tick(i, kb, rnd, v1, v2, sendOk)
    \/ \E i \in Instances, k \in 1..MaxEvents : NetLose(i, k)

SpecPair == InitPair /\ [][NextPair]_vars

\* ------------------------------------------------------------------------
\* Specification of the envelope alone: seal a plaintext, let the network
\* truncate the datagram, change one byte of it or replace it by one sealed
\* under another configuration, and open the result
\* ------------------------------------------------------------------------

\* the plaintexts sealed: empty, a keepalive byte, a short one, a 28-byte packet
Plaintexts == {<<>>, <<90>>, <<69, 0>>, Pkt28}

\* the envelope configurations: disabled, and enabled with each of two keys
EnvBoxes == {DisabledBox, EnabledBox(1), EnabledBox(2)}

InitEnvelope ==
    /\ build = "mini_overlay"
    /\ engines = {}
    /\ b = [i \in Instances |-> DisabledBox]
    /\ raddr = [i \in Instances |-> Nil]
    /\ learned = [i \in Instances |-> FALSE]
    /\ outPc = [i \in Instances |-> "read"]
    /\ outSealed = [i \in Instances |-> <<>>]
    /\ inPc = [i \in Instances |-> "recv"]
    /\ rxq = [i \in Instances |-> <<>>]
    /\ tunReads = [i \in Instances |-> <<>>]
    /\ tunWrites = [i \in Instances |-> <<>>]
    /\ udpSent = [i \in Instances |-> <<>>]
    /\ rxLog = [i \in Instances |-> <<>>]
    /\ dropped = [i \in Instances |-> {}]
    /\ unsetAtRead = [i \in Instances |-> {}]
    /\ ticks = [i \in Instances |-> 0]
    /\ kaDue = [i \in Instances |-> 0]
    /\ injected = 0
    /\ faults = 0
    /\ mainPc = [i \in Instances |-> "wait"]
    /\ sig = [i \in Instances |-> 0]
    /\ envPc = "start"
    /\ envBox \in EnvBoxes
    /\ envMsg \in Plaintexts
    /\ envSealed = [out |-> <<>>, err |-> FALSE]
    /\ envDgram = <<>>
    /\ envMangled = FALSE
    /\ envOpened = [out |-> <<>>, ok |-> FALSE]

\* envSealed := envBox.seal(nil, envMsg)
EnvSeal(rnd) ==
    /\ envPc = "start"
    /\ envSealed' = seal(envBox, <<>>, envMsg, rnd)
    /\ envDgram' = envSealed'.out
    /\ envPc' = IF envSealed'.err THEN "failed" ELSE "sealed"
    /\ UNCHANGED <<envBox, envMsg, envMangled, envOpened>>
    /\ UNCHANGED engineVars

\* the network delivers only the first n bytes
EnvTruncate(n) ==
    /\ envPc = "sealed"
    /\ ~envMangled
    /\ n < Len(envDgram)
    /\ envDgram' = Upto(envDgram, n)
    /\ envMangled' = TRUE
    /\ UNCHANGED <<envPc, envBox, envMsg, envSealed, envOpened>>
    /\ UNCHANGED engineVars

\* the network changes byte k
EnvTamper(k) ==
    /\ envPc = "sealed"
    /\ ~envMangled
    /\ k \in 1..Len(envDgram)
    /\ envDgram' = Tamper(envDgram, k)
    /\ envMangled' = TRUE
    /\ UNCHANGED <<envPc, envBox, envMsg, envSealed, envOpened>>
    /\ UNCHANGED engineVars

\* the datagram delivered was sealed by a sender configured with box bx
EnvForeign(bx, rnd) ==
    /\ envPc = "sealed"
    /\ ~envMangled
    /\ bx # envBox
    /\ envDgram' = seal(bx, <<>>, envMsg, rnd).out
    /\ envMangled' = TRUE
    /\ UNCHANGED <<envPc, envBox, envMsg, envSealed, envOpened>>
    /\ UNCHANGED engineVars

\* envOpened := envBox.open(nil, envDgram)
EnvOpen ==
    /\ envPc = "sealed"
    /\ envOpened' = open(envBox, <<>>, envDgram)
    /\ envPc' = "opened"
    /\ UNCHANGED <<envBox, envMsg, envSealed, envDgram, envMangled>>
    /\ UNCHANGED engineVars

\* the longest datagram sealed: a 28-byte packet under an enabled box
MaxDgram == Len(Pkt28) + NonceSize + Overhead

NextEnvelope ==
    \/ \E rnd \in EnvRands \cup {RandErr} : EnvSeal(rnd)
    \/ \E n \in 0..MaxDgram : EnvTruncate(n)
    \/ \E k \in 1..MaxDgram : EnvTamper(k)
    \/ \E bx \in EnvBoxes, rnd \in EnvRands : EnvForeign(bx, rnd)
    \/ EnvOpen

SpecEnvelope == InitEnvelope /\ [][NextEnvelope]_vars

\* ------------------------------------------------------------------------
\* Helpers of the properties
\* ------------------------------------------------------------------------

\* s is t with some elements left out, the order kept
RECURSIVE IsSubseq(_, _)
IsSubseq(s, t) ==
    IF s = <<>> THEN TRUE
    ELSE IF t = <<>> THEN FALSE
    ELSE IF Head(s) = Head(t) THEN IsSubseq(Tail(s), Tail(t))
    ELSE IsSubseq(s, Tail(t))

Range(s) == {s[k] : k \in DOMAIN s}

\* the plaintexts open accepts among the datagrams engine i received, in order
RECURSIVE OpenedOf(_, _)
OpenedOf(bx, log) ==
    IF log = <<>> THEN <<>>
    ELSE LET r == open(bx, <<>>, Head(log).data)
         IN  (IF r.ok THEN <<r.out>> ELSE <<>>) \o OpenedOf(bx, Tail(log))

\* the calls of WriteToUDP of engine i that put a datagram on the wire
Emitted(i) == {e \in Range(udpSent[i]) : e.ok}

\* ------------------------------------------------------------------------
\* C1: the peer-address cell moves from unset to set only on an inbound
\* datagram that open accepted: a datagram open rejects leaves it unset.
\* ------------------------------------------------------------------------
C1_LearnOnlyAuthenticated ==
    \A i \in engines : \A e \in Range(rxLog[i]) : e.learnt => e.ok

\* ------------------------------------------------------------------------
\* C2: the peer-address cell changes at most once and only from unset to set:
\* once it holds an address no step changes or clears it.
\* ------------------------------------------------------------------------
C2_PeerSetOnce ==
    [][\A i \in Instances : raddr[i] # Nil => raddr'[i] = raddr[i]]_vars

\* the peer is set, a datagram of another sender was received after that, a
\* packet was sent and a period has elapsed
C2_Witness ==
    /\ raddr["A"] # Nil
    /\ \E e \in Range(rxLog["A"]) : e.from # raddr["A"] /\ ~e.learnt
    /\ Emitted("A") # {}
    /\ ticks["A"] > 0

\* ------------------------------------------------------------------------
\* C3: every packet written to TUN is the plaintext of a successful open of a
\* received datagram, in the order received; a rejected datagram causes no
\* TUN write.
\* ------------------------------------------------------------------------
C3_TunWritesAreOpened ==
    \A i \in engines :
        /\ IsSubseq(tunWrites[i], OpenedOf(b[i], rxLog[i]))
        /\ Len(tunWrites[i])
              <= Cardinality({k \in DOMAIN rxLog[i] : rxLog[i][k].ok})

\* encryption enabled, a rejected and an accepted datagram were received, and
\* one packet was written
C3_Witness ==
    /\ b["A"].enable
    /\ \E e \in Range(rxLog["A"]) : ~e.ok
    /\ \E e \in Range(rxLog["A"]) : e.ok
    /\ Len(tunWrites["A"]) = 1

\* the calls of WriteToUDP of engine i made for source src ("tun" or "ka")
SentFor(i, src) == {k \in DOMAIN udpSent[i] : udpSent[i][k].src = src}

\* ------------------------------------------------------------------------
\* C4 as claimed: while the peer-address cell is unset no task sends a
\* datagram; a packet read from TUN while the peer is unset is dropped and
\* never sent later; a keepalive tick with the peer unset sends nothing.
\* ------------------------------------------------------------------------
C4_ReadWhileUnsetNeverSent ==
    \A i \in engines :
        /\ udpSent[i] # <<>> => raddr[i] # Nil
        /\ \A e \in Range(udpSent[i]) :
              e.src = "tun" => e.idx \notin unsetAtRead[i]
        /\ Cardinality(SentFor(i, "ka")) <= kaDue[i]

\* ------------------------------------------------------------------------
\* C4 amended: while the peer-address cell is unset no task sends a datagram;
\* a packet for which the outbound loop finds the peer unset when it checks
\* raddr after sealing is dropped and never sent later, not even after the
\* peer becomes set; a keepalive tick with the peer unset sends nothing.
\* ------------------------------------------------------------------------
C4_DroppedNeverSent ==
    \A i \in engines :
        /\ udpSent[i] # <<>> => raddr[i] # Nil
        /\ \A e \in Range(udpSent[i]) :
              e.src = "tun" => e.idx \notin dropped[i]
        /\ Cardinality(SentFor(i, "ka")) <= kaDue[i]

\* a packet was dropped with the peer unset, the peer was learned afterwards
\* and a later packet was sent
C4_Witness ==
    /\ dropped["A"] # {}
    /\ learned["A"]
    /\ \E e \in Emitted("A") : e.src = "tun" /\ e.idx \notin dropped["A"]

\* ------------------------------------------------------------------------
\* C5: every datagram sent is addressed to the value of the peer-address cell
\* and is the seal of one packet read from TUN or of one keepalive byte; each
\* packet read from TUN gives rise to at most one call of WriteToUDP, also
\* when that call fails.
\* ------------------------------------------------------------------------
C5_SendsWellFormed ==
    \A i \in engines :
        /\ \A e \in Range(udpSent[i]) :
              /\ e.to \in {raddr[i], Nil}
              /\ e.ok => e.to # Nil
              /\ e.src = "tun" =>
                    /\ e.idx \in DOMAIN tunReads[i]
                    /\ \E r \in Rands :
                          e.data = seal(b[i], <<>>, tunReads[i][e.idx], r).out
              /\ e.src = "ka" =>
                    \E kb \in KeepaliveBytes, r \in Rands :
                        e.data = seal(b[i], <<>>, <<kb>>, r).out
              /\ e.src \in {"tun", "ka"}
        /\ \A k1, k2 \in SentFor(i, "tun") :
              udpSent[i][k1].idx = udpSent[i][k2].idx => k1 = k2

\* the send of the first packet failed and the second packet was sent
C5_Witness ==
    /\ \E e \in Range(udpSent["A"]) :
          e.src = "tun" /\ e.idx = 1 /\ ~e.ok /\ e.to # Nil
    /\ \E e \in Emitted("A") : e.src = "tun" /\ e.idx = 2
    /\ Len(udpSent["A"]) = 2

\* ------------------------------------------------------------------------
\* C9: in a loopback pair the packets written to the TUN of one engine are,
\* at every point, an order-preserving subsequence of the packets read from
\* the TUN of the other engine.
\* ------------------------------------------------------------------------
C9_PairSubsequence ==
    \A i \in Instances : IsSubseq(tunWrites[Other(i)], tunReads[i])

\* ------------------------------------------------------------------------
\* C10: at every keepalive tick at which the peer-address cell is set, exactly
\* one datagram that is the seal of a single byte is sent to the peer.
\* ------------------------------------------------------------------------
C10_KeepaliveEveryTick ==
    \A i \in engines :
        /\ Cardinality(SentFor(i, "ka")) = kaDue[i]
        /\ \A k \in SentFor(i, "ka") : udpSent[i][k].to = raddr[i]

\* ------------------------------------------------------------------------
\* C6: open of a successful seal under the same configuration accepts and
\* returns the plaintext, the empty one included; when disabled seal and open
\* return their input unchanged.
\* ------------------------------------------------------------------------
C6_RoundTrip ==
    /\ (envPc = "opened" /\ ~envMangled) =>
          (envOpened.ok /\ envOpened.out = envMsg)
    /\ (envPc \in {"sealed", "opened"} /\ ~envBox.enable) =>
          (~envSealed.err /\ envSealed.out = envMsg)
    /\ (envPc = "opened" /\ ~envBox.enable) =>
          (envOpened.ok /\ envOpened.out = envDgram)

\* the empty plaintext was sealed under a key and opened
C6_Witness ==
    /\ envPc = "opened"
    /\ envBox.enable
    /\ ~envMangled
    /\ envMsg = <<>>
    /\ envOpened.ok

\* ------------------------------------------------------------------------
\* C7: with encryption enabled open rejects every datagram of 39 bytes or
\* fewer (from 24 bytes on it is the primitive that rejects) and accepts the
\* 40-byte seal of the empty plaintext, returning the empty plaintext.
\* ------------------------------------------------------------------------
C7_ShortRejected ==
    (envPc = "opened" /\ envBox.enable) =>
        /\ Len(envDgram) <= 39 => ~envOpened.ok
        /\ Len(envDgram) \in 24..39 =>
              ~SecretboxOpen(<<>>, From(envDgram, 24), Upto(envDgram, 24),
                             envBox.key).ok
        /\ (~envMangled /\ envMsg = <<>>) =>
              (Len(envDgram) = 40 /\ envOpened.ok /\ envOpened.out = <<>>)

\* the 39-byte prefix of a sealed datagram was opened and rejected
C7_Witness ==
    /\ envPc = "opened"
    /\ envBox.enable
    /\ Len(envDgram) = 39
    /\ ~envOpened.ok

\* ------------------------------------------------------------------------
\* C8: with encryption enabled a successful seal of n bytes returns n + 40
\* bytes (68 for a 28-byte packet, 41 for a keepalive), never fewer than 40;
\* with encryption disabled it returns n bytes.
\* ------------------------------------------------------------------------
C8_SealLength ==
    (envPc \in {"sealed", "opened"}) =>
        /\ ~envSealed.err
        /\ envBox.enable =>
              /\ Len(envSealed.out) = Len(envMsg) + 40
              /\ Len(envSealed.out) >= 40
              /\ Len(envMsg) = 28 => Len(envSealed.out) = 68
              /\ Len(envMsg) = 1 => Len(envSealed.out) = 41
        /\ ~envBox.enable => Len(envSealed.out) = Len(envMsg)

\* a 28-byte packet was sealed under a key
C8_Witness ==
    /\ envPc = "sealed"
    /\ envBox.enable
    /\ envMsg = Pkt28
    /\ Len(envSealed.out) = 68

\* ------------------------------------------------------------------------
\* C11: once the inbound loop has stored the sender of a datagram into the
\* unset peer-address cell, every packet the outbound loop reads from TUN from
\* then on and seals is passed to WriteToUDP addressed to that sender: none
\* of them is dropped at the raddr == nil check or addressed to nil.
\* ------------------------------------------------------------------------
C11_LearnedPeerVisible ==
    \A i \in engines :
        /\ \A k \in dropped[i] : k \in unsetAtRead[i]
        /\ \A e \in Range(udpSent[i]) :
              (e.src = "tun" /\ e.idx \notin unsetAtRead[i]) =>
                  e.to = raddr[i]

\* ------------------------------------------------------------------------
\* C12: a failed TUN read, TUN write, UDP send or UDP receive is logged and
\* the loop in which it failed goes on to its next iteration: no failed
\* operation ends the outbound or the inbound loop.
\* ------------------------------------------------------------------------
C12_LoopsContinue ==
    \A i \in engines : outPc[i] # "exit" /\ inPc[i] # "exit"

\* ------------------------------------------------------------------------
\* C13: when the outbound or the inbound loop has exited on an error the
\* process eventually terminates, whether or not a termination signal is
\* delivered.
\* ------------------------------------------------------------------------
C13_LoopExitEndsProcess ==
    \A i \in Instances :
        (outPc[i] = "exit" \/ inPc[i] = "exit") ~> mainPc[i] = "exited"

\* ------------------------------------------------------------------------
\* C14: after SIGINT or SIGTERM is delivered the process eventually exits,
\* and once it has exited the loops take no further step: no datagram is
\* sent, no packet is read from or written to TUN, no datagram is received.
\* ------------------------------------------------------------------------
C14_ShutdownAfterSignal ==
    /\ \A i \in Instances : (sig[i] > 0) ~> (mainPc[i] = "exited")
    /\ [][\A i \in Instances : mainPc[i] = "exited" =>
             /\ mainPc'[i] = "exited"
             /\ udpSent'[i] = udpSent[i]
             /\ tunWrites'[i] = tunWrites[i]
             /\ tunReads'[i] = tunReads[i]
             /\ rxLog'[i] = rxLog[i]
             /\ outPc'[i] = outPc[i]
             /\ inPc'[i] = inPc[i]]_vars

\* the process has exited after a signal, having sent a datagram, with a
\* sealed packet still unsent in the outbound loop
C14_Witness ==
    /\ sig["A"] > 0
    /\ mainPc["A"] = "exited"
    /\ Emitted("A") # {}
    /\ outPc["A"] = "send"

\* ------------------------------------------------------------------------
\* C15: neither loop waits on the other: the inbound loop takes a queued
\* datagram whatever the outbound loop is doing (blocked in ifce.Read, holding
\* a sealed packet, or ended), and the outbound loop sends the packet it
\* holds, and takes a packet the TUN offers, whatever the inbound loop is
\* doing (blocked in ReadFromUDP or ended).
\* ------------------------------------------------------------------------
C15_LoopsIndependent ==
    \A i \in engines :
        /\ (ConnOpen(i) /\ inPc[i] = "recv" /\ rxq[i] # <<>>) =>
              ENABLED InboundRuns(i)
        /\ (Alive(i) /\ outPc[i] = "send") => ENABLED OutboundRuns(i)
        /\ (Alive(i) /\ outPc[i] = "read" /\ Events < MaxEvents) =>
              ENABLED OutboundReads(i)

\* the outbound loop is blocked in its first ifce.Read, no packet having come
\* from TUN, and the inbound loop has received a datagram and written it
C15_Witness ==
    /\ outPc["A"] = "read"
    /\ tunReads["A"] = <<>>
    /\ Len(rxLog["A"]) > 0
    /\ Len(tunWrites["A"]) > 0
    /\ mainPc["A"] = "wait"

\* ------------------------------------------------------------------------
\* C17: a failed TUN read or TUN write ends at most the loop in which it
\* occurs and never the process: the step at which the outbound loop ends
\* leaves the inbound loop and main() where they are, an iteration of the
\* inbound loop, its TUN write failed or not, leaves that loop receiving,
\* main() leaves <-stop only after a signal, and with the outbound loop ended
\* the inbound loop still takes a queued datagram.
\* ------------------------------------------------------------------------
C17_TunFailureEndsOnlyLoop ==
    /\ [](\A i \in engines :
             /\ mainPc[i] # "wait" => sig[i] > 0
             /\ (outPc[i] = "exit" /\ ConnOpen(i) /\ inPc[i] = "recv"
                    /\ rxq[i] # <<>>) => ENABLED InboundRuns(i))
    /\ [][\A i \in Instances :
             /\ (outPc[i] # "exit" /\ outPc'[i] = "exit") =>
                   (inPc'[i] = inPc[i] /\ mainPc'[i] = mainPc[i])
             /\ Len(rxLog'[i]) > Len(rxLog[i]) =>
                   (inPc'[i] = "recv" /\ outPc'[i] = outPc[i]
                       /\ mainPc'[i] = mainPc[i])
             /\ mainPc'[i] # mainPc[i] => sig[i] > 0]_vars

\* the outbound loop has ended on a failed TUN read, no signal was sent, the
\* inbound loop has written a packet to TUN and another datagram is queued
C17_Witness ==
    /\ outPc["A"] = "exit"
    /\ sig["A"] = 0
    /\ mainPc["A"] = "wait"
    /\ Len(tunWrites["A"]) > 0
    /\ rxq["A"] # <<>>

\* ------------------------------------------------------------------------
\* C18: when the peer-address cell holds P, a datagram of another sender Q
\* that open accepts leaves the cell at P, no datagram is ever sent to Q, and
\* the datagram is not dropped: ifce.Write is called with its plaintext, and
\* the packets written to TUN are as many as the calls that succeeded.
\* ------------------------------------------------------------------------
C18_NoRebindNoDrop ==
    \A i \in engines :
        /\ \A e \in Range(rxLog[i]) :
              (e.was # Nil /\ e.from # e.was /\ e.ok) =>
                  /\ raddr[i] = e.was
                  /\ \A s \in Range(udpSent[i]) : s.to \in {e.was, Nil}
                  /\ e.wrote \/ e.werr
                  /\ e.wrote =>
                        open(b[i], <<>>, e.data).out \in Range(tunWrites[i])
        /\ Len(tunWrites[i])
              = Cardinality({k \in DOMAIN rxLog[i] : rxLog[i][k].wrote})

\* with the peer set to B an accepted datagram of X was written to TUN, and a
\* packet read from TUN was sent to B
C18_Witness ==
    /\ \E e \in Range(rxLog["A"]) :
          e.was = "B" /\ e.from = "X" /\ e.ok /\ e.wrote
    /\ \E s \in Emitted("A") : s.src = "tun" /\ s.to = "B"
    /\ raddr["A"] = "B"

\* ------------------------------------------------------------------------
\* C19: the peer-address cell is written only by the inbound loop: a step
\* that changes raddr[i] is an iteration of the inbound loop of engine i, and
\* every step of the outbound loop and of the keepalive loop (a step that
\* reads from TUN, calls WriteToUDP, drops a packet, ends the outbound loop
\* or ends a period) leaves it unchanged; no step changes the box.
\* ------------------------------------------------------------------------
C19_PeerWrittenByInboundOnly ==
    [][/\ b' = b
       /\ \A i \in Instances :
             /\ raddr'[i] # raddr[i] =>
                   (Len(rxLog'[i]) = Len(rxLog[i]) + 1 /\ inPc[i] = "recv")
             /\ (\/ tunReads'[i] # tunReads[i]
                 \/ udpSent'[i] # udpSent[i]
                 \/ dropped'[i] # dropped[i]
                 \/ outPc'[i] # outPc[i]
                 \/ ticks'[i] # ticks[i]) => raddr' = raddr]_vars

\* the inbound loop has learned the peer, the outbound loop has sent a packet
\* to it and the keepalive loop a keepalive
C19_Witness ==
    /\ learned["A"]
    /\ \E s \in Emitted("A") : s.src = "tun" /\ s.to = raddr["A"]
    /\ \E s \in Emitted("A") : s.src = "ka" /\ s.to = raddr["A"]

\* the plaintexts of the datagrams of log that an iteration wrote to TUN
RECURSIVE WrittenOf(_, _)
WrittenOf(bx, log) ==
    IF log = <<>> THEN <<>>
    ELSE (IF Head(log).wrote THEN <<open(bx, <<>>, Head(log).data).out>>
          ELSE <<>>) \o WrittenOf(bx, Tail(log))

\* ------------------------------------------------------------------------
\* C20: the inbound loop calls ifce.Write exactly once for every received
\* datagram that open accepts and for no other, whatever the plaintext: the
\* packets written to TUN are, in order and with repetitions, the plaintexts
\* of the accepted datagrams whose write did not fail, a one-byte keepalive
\* and the plaintext of no bytes included.
\* ------------------------------------------------------------------------
C20_OneWritePerAccepted ==
    \A i \in engines :
        /\ \A e \in Range(rxLog[i]) :
              /\ e.ok <=> (e.wrote \/ e.werr)
              /\ ~(e.wrote /\ e.werr)
              /\ e.ok <=> open(b[i], <<>>, e.data).ok
        /\ tunWrites[i] = WrittenOf(b[i], rxLog[i])

\* with encryption enabled a sealed keepalive byte and a sealed packet were
\* received and both plaintexts were written to TUN
C20_Witness ==
    /\ b["A"].enable
    /\ \E e \in Range(rxLog["A"]) : Len(e.data) = 41 /\ e.ok /\ e.wrote
    /\ tunWrites["A"] \in {<<Pkt28, <<90>>>>, <<<<90>>, Pkt28>>}

====
